---- MODULE Spec2Model ----
(***************************************************************************)
(* BiasAdjustment (apply_adjust_bias.py): a tracker that moves bias_level  *)
(* toward target_bias over response_time index units, either by an         *)
(* exponential step response ('gradual') or by a straight ramp ('linear'). *)
(*                                                                         *)
(* Numbers.  Bias values are fixed-point integers counting 1/Unit; Unit is *)
(* a multiple of every response_time of the model, so the linear slope     *)
(* (target_bias - last_target_bias) / response_time is exact.  np.exp is   *)
(* evaluated by its power series in fixed point (np_exp), so the gradual   *)
(* step factor is 0 at time_elapsed = 0, strictly inside (0, 1) for        *)
(* 0 < time_elapsed < response_time and negative for time_elapsed < 0.     *)
(***************************************************************************)
EXTENDS Integers, Sequences, FiniteSets, TLC

\* ---------------------------------------------------------------- bounds
MaxResponseTime == 2
MaxTarget == 2
MaxIndex == 1
MaxCalls == 3
MaxLevel == 4
Resolution == 6
ExpScale == 1000
ExpPrecision == 100000
ExpTerms == 30
MaxTicks == 4

\* response_time=20, the default of __init__ and the value of the scenario.
DefaultResponseTime == 20

RECURSIVE Gcd(_, _)
Gcd(a, b) == IF b = 0 THEN a ELSE Gcd(b, a % b)

RECURSIVE LcmUpTo(_)
LcmUpTo(n) == IF n <= 1 THEN 1 ELSE LET l == LcmUpTo(n - 1) IN (l * n) \div Gcd(l, n)

Lcm(a, b) == (a * b) \div Gcd(a, b)

\* One whole bias value, in fixed-point units.
Unit == Lcm(LcmUpTo(MaxResponseTime), DefaultResponseTime) * Resolution

Abs(x) == IF x < 0 THEN -x ELSE x

ResponseTimes == 1..MaxResponseTime
InitValues == {0, Unit}
BiasInputs == {v * Unit : v \in 0..MaxTarget}
Indexes == (-1)..MaxIndex
BiasTypes == {"gradual", "linear", "bogus"}
Interpolating == {"gradual", "linear"}

\* ------------------------------------------------------------- the state
VARIABLES
    response_time,      \* self.response_time
    bias_level,         \* self.bias_level
    target_bias,        \* self.target_bias
    last_target_bias,   \* self.last_target_bias
    target_index,       \* self.target_index
    last_update_index,  \* self.last_update_index
    op,                 \* the method the caller invoked last ("init" before any call)
    index,              \* its index / current_index argument
    bias_input,         \* its bias_input argument (0 when the method takes none)
    bias_type,          \* its bias_type argument ("gradual", the default, when it takes none)
    is_changed,         \* what validate_bias_input returned inside the last call
    computed,           \* the last call ran calculate_bias
    raised,             \* the last call raised ZeroDivisionError
    result,             \* the number the last call returned (0 when it returned none)
    updated,            \* update_target_bias has run at least once
    ticking,            \* every call so far was apply_bias(.., 'linear') at consecutive indexes
    calls,              \* number of calls made
    history             \* the calls of a scripted caller, in order, with what each returned

fields == <<response_time, bias_level, target_bias, last_target_bias,
            target_index, last_update_index>>
vars == <<response_time, bias_level, target_bias, last_target_bias,
          target_index, last_update_index, op, index, bias_input, bias_type,
          is_changed, computed, raised, result, updated, ticking, calls, history>>

\* The object as a record, for the methods below.
Self == [response_time |-> response_time, bias_level |-> bias_level,
         target_bias |-> target_bias, last_target_bias |-> last_target_bias,
         target_index |-> target_index, last_update_index |-> last_update_index]

\* ----------------------------------------------------------- the methods
\* __init__ that takes bias_init as the first target too.
BiasAdjustment_targets_init(rt, bias_init) ==
    [response_time |-> rt, bias_level |-> bias_init, target_bias |-> bias_init,
     last_target_bias |-> bias_init, target_index |-> 0, last_update_index |-> 0]

\* __init__(response_time, bias_init)
BiasAdjustment(rt, bias_init) ==
    [response_time |-> rt, bias_level |-> bias_init, target_bias |-> 0,
     last_target_bias |-> bias_init, target_index |-> 0, last_update_index |-> 0]

\* update_target_bias that leaves last_update_index as it was.
update_target_bias_stale_index(self, new_index, new_bias) ==
    [self EXCEPT !.last_target_bias = self.target_bias,
                 !.target_bias = new_bias,
                 !.target_index = new_index + self.response_time]

\* update_target_bias that also moves bias_level onto the new target.
update_target_bias_snaps_level(self, new_index, new_bias) ==
    [self EXCEPT !.last_target_bias = self.target_bias,
                 !.target_bias = new_bias,
                 !.target_index = new_index + self.response_time,
                 !.last_update_index = new_index,
                 !.bias_level = new_bias]

\* update_target_bias(new_index, new_bias): the object afterwards.
update_target_bias(self, new_index, new_bias) ==
    [self EXCEPT !.last_target_bias = self.target_bias,
                 !.target_bias = new_bias,
                 !.target_index = new_index + self.response_time,
                 !.last_update_index = new_index]

\* validate_bias_input comparing the input with bias_level.
validate_bias_input_vs_level(self, idx, input) ==
    IF self.bias_level # input
    THEN [self |-> update_target_bias(self, idx, input), ret |-> TRUE]
    ELSE [self |-> self, ret |-> FALSE]

\* validate_bias_input that restarts the window on every input.
validate_bias_input_always(self, idx, input) ==
    [self |-> update_target_bias(self, idx, input), ret |-> self.target_bias # input]

\* validate_bias_input(index, bias_input): the object afterwards and the
\* returned bool.
validate_bias_input(self, idx, input) ==
    IF self.target_bias # input
    THEN [self |-> update_target_bias(self, idx, input), ret |-> TRUE]
    ELSE [self |-> self, ret |-> FALSE]

\* np.exp(num / den) in units of 1/ExpScale: the power series, term k being
\* term k-1 times (num/den)/k, summed in units of 1/ExpPrecision.
RECURSIVE ExpSeries(_, _, _, _)
ExpSeries(num, den, k, term) ==
    IF k > ExpTerms THEN term
    ELSE term + ExpSeries(num, den, k + 1, (term * num) \div (den * k))

ExpValue(num, den) ==
    LET sum == ExpSeries(num, den, 1, ExpPrecision)
    IN  (sum \div ExpPrecision) * ExpScale + ((sum % ExpPrecision) * ExpScale) \div ExpPrecision

\* The values of np.exp the model can ask for, computed once.
ExpTable ==
    [num \in (-MaxResponseTime)..(MaxIndex + 1), den \in ResponseTimes |->
        ExpValue(num, den)]

np_exp(num, den) ==
    IF <<num, den>> \in DOMAIN ExpTable THEN ExpTable[num, den] ELSE ExpValue(num, den)

\* A computed level, or the ZeroDivisionError raised instead of one.
Level(x) == [raised |-> FALSE, level |-> x]
ZeroDivisionError == [raised |-> TRUE, level |-> 0]

\* The 'gradual' branch of calculate_bias: the step response toward
\* target_bias before target_index, target_bias itself from there on.
gradual_arrives_late(self, current_index, time_elapsed) ==
    IF current_index <= self.target_index THEN
        IF self.response_time = 0 THEN ZeroDivisionError
        ELSE LET change == ExpScale - np_exp(-time_elapsed, self.response_time)
             IN Level(self.bias_level
                      + ((self.target_bias - self.bias_level) * change) \div ExpScale)
    ELSE Level(self.target_bias)

\* The 'gradual' branch with the sign of the exponent lost.
gradual_sign_slip(self, current_index, time_elapsed) ==
    IF current_index < self.target_index THEN
        IF self.response_time = 0 THEN ZeroDivisionError
        ELSE LET change == ExpScale - np_exp(time_elapsed, self.response_time)
             IN Level(self.bias_level
                      + ((self.target_bias - self.bias_level) * change) \div ExpScale)
    ELSE Level(self.target_bias)

gradual(self, current_index, time_elapsed) ==
    IF current_index < self.target_index THEN
        IF self.response_time = 0 THEN ZeroDivisionError
        ELSE LET change == ExpScale - np_exp(-time_elapsed, self.response_time)
             IN Level(self.bias_level
                      + ((self.target_bias - self.bias_level) * change) \div ExpScale)
    ELSE Level(self.target_bias)

\* The 'linear' branch of calculate_bias: the ramp from last_target_bias at
\* last_update_index to target_bias at target_index.
linear_from_level(self, current_index) ==
    IF current_index < self.target_index THEN
        IF self.target_index - self.last_update_index = 0 THEN ZeroDivisionError
        ELSE LET slope == (self.target_bias - self.bias_level)
                             \div (self.target_index - self.last_update_index)
             IN Level(slope * (current_index - self.last_update_index) + self.bias_level)
    ELSE Level(self.target_bias)

\* The 'linear' branch with the ramp resumed from bias_level when
\* bias_level is off the ramp's start.
linear_resumes(self, current_index) ==
    IF current_index < self.target_index THEN
        IF self.target_index - self.last_update_index = 0 THEN ZeroDivisionError
        ELSE LET slope == (self.target_bias - self.last_target_bias)
                             \div (self.target_index - self.last_update_index)
                 start == IF current_index = self.last_update_index
                          THEN self.bias_level ELSE self.last_target_bias
             IN Level(slope * (current_index - self.last_update_index) + start)
    ELSE Level(self.target_bias)

linear(self, current_index) ==
    IF current_index < self.target_index THEN
        IF self.target_index - self.last_update_index = 0 THEN ZeroDivisionError
        ELSE LET slope == (self.target_bias - self.last_target_bias)
                             \div (self.target_index - self.last_update_index)
             IN Level(slope * (current_index - self.last_update_index)
                      + self.last_target_bias)
    ELSE Level(self.target_bias)

\* The default case of calculate_bias: no change in bias.
default_case_snaps(self) == Level(self.target_bias)

default_case(self) == Level(self.bias_level)

\* calculate_bias that also re-bases last_target_bias on the computed level.
calculate_bias_rebases(self, current_index, type) ==
    LET time_elapsed == current_index - self.last_update_index
        bias_level_ == IF type = "gradual" THEN gradual(self, current_index, time_elapsed)
                       ELSE IF type = "linear" THEN linear(self, current_index)
                       ELSE default_case(self)
    IN  IF bias_level_.raised
        THEN [self |-> self, ret |-> 0, raised |-> TRUE]
        ELSE [self |-> [self EXCEPT !.bias_level = bias_level_.level,
                                    !.last_target_bias = bias_level_.level],
              ret |-> bias_level_.level, raised |-> FALSE]

\* calculate_bias(current_index, bias_type): the object afterwards, the
\* returned value, and whether a division by zero was raised instead (then
\* the assignment to self.bias_level is not reached).
calculate_bias(self, current_index, type) ==
    LET time_elapsed == current_index - self.last_update_index
        bias_level_ == IF type = "gradual" THEN gradual(self, current_index, time_elapsed)
                       ELSE IF type = "linear" THEN linear(self, current_index)
                       ELSE default_case(self)
    IN  IF bias_level_.raised
        THEN [self |-> self, ret |-> 0, raised |-> TRUE]
        ELSE [self |-> [self EXCEPT !.bias_level = bias_level_.level],
              ret |-> bias_level_.level, raised |-> FALSE]

\* apply_bias with the arrival boundary excluded.
apply_bias_exclusive(self, idx, input, type) ==
    LET v == validate_bias_input(self, idx, input)
        has_not_arrived == idx < v.self.target_index
    IN  IF v.ret \/ has_not_arrived
        THEN LET c == calculate_bias(v.self, idx, type)
             IN [self |-> c.self, ret |-> c.ret, raised |-> c.raised,
                 is_changed |-> v.ret, computed |-> TRUE]
        ELSE [self |-> v.self, ret |-> v.self.bias_level, raised |-> FALSE,
              is_changed |-> v.ret, computed |-> FALSE]

\* apply_bias(index, bias_input, bias_type)
apply_bias(self, idx, input, type) ==
    LET v == validate_bias_input(self, idx, input)
        has_not_arrived == idx <= v.self.target_index
    IN  IF v.ret \/ has_not_arrived
        THEN LET c == calculate_bias(v.self, idx, type)
             IN [self |-> c.self, ret |-> c.ret, raised |-> c.raised,
                 is_changed |-> v.ret, computed |-> TRUE]
        ELSE [self |-> v.self, ret |-> v.self.bias_level, raised |-> FALSE,
              is_changed |-> v.ret, computed |-> FALSE]

\* --------------------------------------------------------- the transitions
Store(self) ==
    /\ response_time' = self.response_time
    /\ bias_level' = self.bias_level
    /\ target_bias' = self.target_bias
    /\ last_target_bias' = self.last_target_bias
    /\ target_index' = self.target_index
    /\ last_update_index' = self.last_update_index

\* Values stay within the fixed-point range of the model.
InRange(self) == Abs(self.bias_level) <= MaxLevel * Unit

Init ==
    /\ \E rt \in ResponseTimes, bias_init \in InitValues :
          /\ response_time = rt
          /\ bias_level = bias_init
          /\ target_bias = BiasAdjustment(rt, bias_init).target_bias
          /\ last_target_bias = BiasAdjustment(rt, bias_init).last_target_bias
          /\ target_index = BiasAdjustment(rt, bias_init).target_index
          /\ last_update_index = BiasAdjustment(rt, bias_init).last_update_index
    /\ op = "init"
    /\ index = 0
    /\ bias_input = 0
    /\ bias_type = "gradual"
    /\ is_changed = FALSE
    /\ computed = FALSE
    /\ raised = FALSE
    /\ result = 0
    /\ updated = FALSE
    /\ ticking = TRUE
    /\ calls = 0
    /\ history = <<>>

\* A caller invokes validate_bias_input(i, b).
ValidateBiasInput ==
    \E i \in Indexes, b \in BiasInputs :
        LET v == validate_bias_input(Self, i, b)
        IN  /\ calls < MaxCalls
            /\ Store(v.self)
            /\ op' = "validate_bias_input"
            /\ index' = i
            /\ bias_input' = b
            /\ is_changed' = v.ret
            /\ computed' = FALSE
            /\ raised' = FALSE
            /\ updated' = (updated \/ v.ret)
            /\ ticking' = FALSE
            /\ calls' = calls + 1
            /\ bias_type' = "gradual"
            /\ result' = 0
            /\ UNCHANGED history

\* A caller invokes calculate_bias(i, t).
CalculateBias ==
    \E i \in Indexes, t \in BiasTypes :
        LET c == calculate_bias(Self, i, t)
        IN  /\ calls < MaxCalls
            /\ InRange(c.self)
            /\ Store(c.self)
            /\ op' = "calculate_bias"
            /\ index' = i
            /\ bias_type' = t
            /\ is_changed' = FALSE
            /\ computed' = TRUE
            /\ raised' = c.raised
            /\ result' = c.ret
            /\ ticking' = FALSE
            /\ calls' = calls + 1
            /\ bias_input' = 0
            /\ UNCHANGED <<updated, history>>

\* A caller invokes apply_bias(i, b, t).
ApplyBias ==
    \E i \in Indexes, b \in BiasInputs, t \in BiasTypes :
        LET a == apply_bias(Self, i, b, t)
        IN  /\ calls < MaxCalls
            /\ InRange(a.self)
            /\ Store(a.self)
            /\ op' = "apply_bias"
            /\ index' = i
            /\ bias_input' = b
            /\ bias_type' = t
            /\ is_changed' = a.is_changed
            /\ computed' = a.computed
            /\ raised' = a.raised
            /\ result' = a.ret
            /\ updated' = (updated \/ a.is_changed)
            /\ ticking' = (ticking /\ t = "linear" /\ (calls = 0 \/ i = index + 1))
            /\ calls' = calls + 1
            /\ UNCHANGED history

Next == ValidateBiasInput \/ CalculateBias \/ ApplyBias

Spec == Init /\ [][Next]_vars

TypeOK ==
    /\ response_time \in ResponseTimes
    /\ op \in {"init", "validate_bias_input", "calculate_bias", "apply_bias"}
    /\ bias_type \in BiasTypes
    /\ calls \in 0..MaxCalls
    /\ Abs(bias_level) <= MaxLevel * Unit

\* ------------------------------------------------- the scripted callers
\* A caller that only uses apply_bias and writes down each call: its
\* arguments, what it returned and the object it left.
Logged(a, i, b, t) ==
    /\ Store(a.self)
    /\ op' = "apply_bias"
    /\ index' = i
    /\ bias_input' = b
    /\ bias_type' = t
    /\ is_changed' = a.is_changed
    /\ computed' = a.computed
    /\ raised' = a.raised
    /\ result' = a.ret
    /\ updated' = (updated \/ a.is_changed)
    /\ ticking' = (ticking /\ t = "linear" /\ (calls = 0 \/ i = index + 1))
    /\ calls' = calls + 1
    /\ history' = Append(history, [index |-> i, bias_input |-> b, bias_type |-> t,
                                   ret |-> a.ret, raised |-> a.raised, self |-> a.self])

\* The scenario: BiasAdjustment(response_time=20, bias_init=0), then
\* apply_bias(0, 10, 'gradual'), apply_bias(20, 10, 'gradual'),
\* apply_bias(20, 5, 'linear'), apply_bias(40, 5, 'linear').
Script ==
    << [index |-> 0, bias_input |-> 10 * Unit, bias_type |-> "gradual"],
       [index |-> DefaultResponseTime, bias_input |-> 10 * Unit, bias_type |-> "gradual"],
       [index |-> DefaultResponseTime, bias_input |-> 5 * Unit, bias_type |-> "linear"],
       [index |-> 2 * DefaultResponseTime, bias_input |-> 5 * Unit, bias_type |-> "linear"] >>

ScenarioIndexes == {k * (DefaultResponseTime \div 2) : k \in 0..4}
ScenarioInputs == {5 * Unit, 10 * Unit}

ScenarioInit ==
    /\ response_time = DefaultResponseTime
    /\ bias_level = 0
    /\ target_bias = BiasAdjustment(DefaultResponseTime, 0).target_bias
    /\ last_target_bias = BiasAdjustment(DefaultResponseTime, 0).last_target_bias
    /\ target_index = BiasAdjustment(DefaultResponseTime, 0).target_index
    /\ last_update_index = BiasAdjustment(DefaultResponseTime, 0).last_update_index
    /\ op = "init"
    /\ index = 0
    /\ bias_input = 0
    /\ bias_type = "gradual"
    /\ is_changed = FALSE
    /\ computed = FALSE
    /\ raised = FALSE
    /\ result = 0
    /\ updated = FALSE
    /\ ticking = TRUE
    /\ calls = 0
    /\ history = <<>>

\* The scenario's caller makes as many calls as the script has, each at an
\* index of the scenario's grid not below the one before.
ScenarioCall ==
    \E i \in ScenarioIndexes, b \in ScenarioInputs, t \in Interpolating :
        /\ Len(history) < Len(Script)
        /\ i >= index
        /\ Logged(apply_bias(Self, i, b, t), i, b, t)

SpecScenario == ScenarioInit /\ [][ScenarioCall]_vars

\* The control loop: apply_bias once per index, each index one above the
\* last, starting anywhere, with 'gradual' or 'linear'.
Tick ==
    \E i \in IF history = <<>> THEN Indexes ELSE {index + 1},
       b \in BiasInputs, t \in Interpolating :
        LET a == apply_bias(Self, i, b, t)
        IN  /\ Len(history) < MaxTicks
            /\ InRange(a.self)
            /\ Logged(a, i, b, t)

SpecTick == Init /\ [][Tick]_vars

\* ------------------------------------------------------------- the claims

\* C1: every apply_bias(index, bias_input, 'gradual' | 'linear') made at an
\* index >= target_index (the arrival index as the call's own target
\* acceptance leaves it) returns target_bias and leaves bias_level equal to
\* target_bias, whether or not the caller called at every index before.
C1_ArrivedStepReturnsTarget ==
    (op = "apply_bias" /\ bias_type \in Interpolating /\ index >= target_index)
        => (~raised /\ result = target_bias /\ bias_level = target_bias)

\* C2: once a target T has been accepted at index i (last_update_index),
\* calculate_bias(j, 'gradual' | 'linear') at any j >= i + response_time
\* returns exactly T and sets bias_level to T, whatever bias_level was.
C2_Convergence ==
    (op = "calculate_bias" /\ bias_type \in Interpolating /\ updated
        /\ index >= last_update_index + response_time)
        => (~raised /\ result = target_bias /\ bias_level = target_bias)

\* C2 witness: a 'gradual' calculate_bias exactly at i + response_time, on a
\* target other than the constructor's.
C2_Witness ==
    /\ op = "calculate_bias" /\ bias_type = "gradual" /\ updated
    /\ index = last_update_index + response_time
    /\ target_bias # 0 /\ result = target_bias

\* C3: validate_bias_input(index, bias_input) returns True exactly when
\* bias_input differs from the stored target_bias, and then leaves
\* last_target_bias = the old target_bias, target_bias = bias_input,
\* last_update_index = index and target_index = index + response_time.
C3_AcceptTarget ==
    [][op' = "validate_bias_input" =>
        /\ is_changed' = (bias_input' # target_bias)
        /\ is_changed' =>
            /\ last_target_bias' = target_bias
            /\ target_bias' = bias_input'
            /\ last_update_index' = index'
            /\ target_index' = index' + response_time]_vars

\* C3 witness: an input equal to bias_level but not to target_bias was
\* accepted while the previous window was still open (the window restarts).
C3_Witness ==
    /\ op = "validate_bias_input" /\ is_changed /\ calls >= 2
    /\ bias_input = bias_level /\ last_target_bias # target_bias
    /\ last_target_bias # 0

\* C4: validate_bias_input(i, T) with T equal to the stored target_bias
\* returns False and changes no field of the object, so a repeated T does
\* not move the window.
C4_IdempotentTarget ==
    [][(op' = "validate_bias_input" /\ bias_input' = target_bias) =>
        (~is_changed' /\ UNCHANGED fields)]_vars

\* C4 witness: the same T offered again at a later index than the one that
\* set it, while bias_level has not reached T; the window stayed where it was.
C4_Witness ==
    /\ op = "validate_bias_input" /\ ~is_changed /\ updated
    /\ bias_input = target_bias /\ bias_level # target_bias
    /\ index > last_update_index

\* C5: after any accepted target update, target_index equals
\* last_update_index + response_time, and later calls keep it so.
C5_ArriveIsSetPlusResponse ==
    updated => target_index = last_update_index + response_time

\* C5 witness: after an update, a later apply_bias took the fast path.
C5_Witness ==
    /\ updated /\ op = "apply_bias" /\ ~is_changed /\ ~computed
    /\ last_update_index # 0

\* C6: with apply_bias called once per consecutive index with 'linear', two
\* consecutive returned values differ by no more than
\* |target_bias - last_target_bias| / response_time.
C6_NoJump ==
    [][(ticking /\ ticking' /\ calls >= 1 /\ ~raised /\ ~raised') =>
        Abs(result' - result) * response_time
            <= Abs(target_bias' - last_target_bias')]_vars

\* C7: apply_bias runs calculate_bias(index, bias_type) on the object as
\* validate_bias_input left it exactly when the input was just accepted or
\* index <= target_index; otherwise it returns the stored bias_level and
\* changes no field.
C7_StepRecomputes ==
    [][op' = "apply_bias" =>
        LET accepted == bias_input' # target_bias
            v == validate_bias_input(Self, index', bias_input')
            c == calculate_bias(v.self, index', bias_type')
            recompute == accepted \/ index' <= target_index'
        IN  /\ is_changed' = accepted
            /\ computed' = recompute
            /\ recompute => (raised' = c.raised /\ bias_level' = c.self.bias_level
                             /\ (~raised' => result' = c.ret))
            /\ ~recompute => (result' = bias_level /\ ~raised' /\ UNCHANGED fields)]_vars

\* C7 witness: an unchanged target, index exactly target_index: the inclusive
\* boundary recomputes and the value moves onto the target.
C7_Witness ==
    /\ op = "apply_bias" /\ ~is_changed /\ updated /\ index = target_index
    /\ computed /\ bias_type = "gradual" /\ result = target_bias /\ target_bias # 0

\* C8: calculate_bias(index, p) with p neither 'gradual' nor 'linear' returns
\* the bias_level it found, raises nothing and changes no field.
C8_HoldOnUnknownPolicy ==
    [][(op' = "calculate_bias" /\ bias_type' \notin Interpolating) =>
        (result' = bias_level /\ ~raised' /\ UNCHANGED fields)]_vars

\* C8 witness: an unknown policy at an index past arrival, bias_level away
\* from target_bias: the value is held, not snapped.
C8_Witness ==
    /\ op = "calculate_bias" /\ bias_type = "bogus" /\ updated
    /\ index >= target_index /\ bias_level # target_bias /\ result = bias_level

\* C9: with response_time > 0, no sequence of calls reaches the 'linear'
\* slope with target_index = last_update_index (no division by zero).
C9_NoDivisionByZero ==
    response_time > 0 => ~raised

\* C10: after target T was accepted at index i replacing P,
\* calculate_bias(j, 'linear') for i <= j < i + response_time returns
\* P + (T - P) * (j - i) / response_time: P at j = i, (P + T) / 2 half way.
C10_LinearRamp ==
    (op = "calculate_bias" /\ bias_type = "linear" /\ updated
        /\ last_update_index <= index /\ index < last_update_index + response_time)
        => /\ ~raised
           /\ result * response_time
                = last_target_bias * response_time
                  + (target_bias - last_target_bias) * (index - last_update_index)
           /\ bias_level = result
           /\ index = last_update_index => result = last_target_bias
           /\ 2 * (index - last_update_index) = response_time
                => 2 * result = last_target_bias + target_bias

\* C10 witness: the midpoint of a ramp between two different targets, the
\* older of which is not the constructor's.
C10_Witness ==
    /\ op = "calculate_bias" /\ bias_type = "linear" /\ updated
    /\ 2 * (index - last_update_index) = response_time
    /\ target_bias # last_target_bias /\ last_target_bias # 0
    /\ 2 * result = last_target_bias + target_bias

\* What a scripted caller asked for in its first n calls.
Asked(n) == [k \in 1..n |-> [index |-> history[k].index,
                             bias_input |-> history[k].bias_input,
                             bias_type |-> history[k].bias_type]]

\* C11: on BiasAdjustment(response_time=20, bias_init=0) the calls
\* apply_bias(0, 10, 'gradual'), apply_bias(20, 10, 'gradual'),
\* apply_bias(20, 5, 'linear'), apply_bias(40, 5, 'linear') return 0, 10, 10
\* and 5, and after the third call last_target_bias = 10,
\* last_update_index = 20 and target_index = 40.
C11_Scenario ==
    LET n == Len(history)
        expected == <<0, 10 * Unit, 10 * Unit, 5 * Unit>>
    IN  (n >= 1 /\ Asked(n) = SubSeq(Script, 1, n)) =>
            /\ ~raised
            /\ result = expected[n]
            /\ history[n].ret = expected[n]
            /\ n = 3 => /\ last_target_bias = 10 * Unit
                        /\ last_update_index = 20
                        /\ target_index = 40

\* C11 witness: the whole script has been played.
C11_Witness ==
    /\ Len(history) = Len(Script) /\ Asked(Len(Script)) = Script
    /\ result = 5 * Unit /\ bias_level = 5 * Unit

\* C12: bias_level is written only by calculate_bias: validate_bias_input,
\* accepting or not, and the fast path of apply_bias leave it as it was, and
\* no call changes response_time.
C12_LevelOnlyByCompute ==
    [][/\ op' = "validate_bias_input" => bias_level' = bias_level
       /\ ~computed' => bias_level' = bias_level
       /\ response_time' = response_time]_vars

\* C12 witness: validate_bias_input accepted a new target while bias_level
\* sat at a computed value that is neither target nor a constructor value.
C12_Witness ==
    /\ op = "validate_bias_input" /\ is_changed
    /\ bias_level # target_bias /\ bias_level # last_target_bias
    /\ bias_level \notin InitValues

\* C13: an accepted update sets last_target_bias to the target_bias it
\* replaces; every other call (calculate_bias, a rejected
\* validate_bias_input, apply_bias without acceptance) leaves
\* last_target_bias, target_bias, last_update_index and target_index alone.
C13_PreviousTargetPerUpdate ==
    [][/\ is_changed' => last_target_bias' = target_bias
       /\ ~is_changed' => UNCHANGED <<last_target_bias, target_bias,
                                      last_update_index, target_index>>]_vars

\* C13 witness: calculate_bias ran in the middle of the second trajectory
\* and last_target_bias is still the first target, not the computed level.
C13_Witness ==
    /\ op = "calculate_bias" /\ bias_type \in Interpolating /\ updated
    /\ last_update_index < index /\ index < target_index
    /\ last_target_bias # 0 /\ last_target_bias # target_bias
    /\ bias_level # last_target_bias

\* C14: while bias_level is at or below target_bias (as it is when a higher
\* target has just been accepted), calculate_bias(j, 'gradual') at an index
\* last_update_index <= j < target_index returns a value that is not below
\* the bias_level it found and not above target_bias; so successive calls
\* at increasing indexes before arrival give a non-decreasing sequence
\* bounded by the target.
C14_GradualMonotone ==
    [][(/\ updated /\ bias_level <= target_bias
        /\ op' = "calculate_bias" /\ bias_type' = "gradual"
        /\ last_update_index <= index' /\ index' < target_index)
       => (/\ ~raised'
           /\ bias_level <= result'
           /\ result' <= target_bias
           /\ bias_level' = result'
           /\ (index' = last_update_index => result' = bias_level))]_vars

\* C14 witness: a 'gradual' calculate_bias strictly inside the window that
\* left the value strictly between the constructor's level and the target.
C14_Witness ==
    /\ op = "calculate_bias" /\ bias_type = "gradual" /\ updated
    /\ last_update_index < index /\ index < target_index
    /\ Unit < result /\ result < target_bias

\* C15: when apply_bias(k, T2, 'linear') offers a new target T2 while the
\* ramp toward T1 = target_bias has not arrived (k < target_index), then
\* last_target_bias becomes T1, the window becomes [k, k + response_time]
\* and the call returns T1, whatever bias_level was.
C15_MidFlightRestart ==
    [][(/\ updated
        /\ op' = "apply_bias" /\ bias_type' = "linear"
        /\ bias_input' # target_bias
        /\ index' < target_index)
       => (/\ is_changed' /\ ~raised'
           /\ last_target_bias' = target_bias
           /\ target_bias' = bias_input'
           /\ last_update_index' = index'
           /\ target_index' = index' + response_time
           /\ result' = target_bias
           /\ bias_level' = target_bias)]_vars

\* C15 witness: two consecutive ticks, response_time 2, each with a new
\* target: the second arrives one index into the first ramp and returns the
\* first target.
C15_Witness ==
    /\ ticking /\ calls = 2 /\ is_changed /\ response_time = 2
    /\ last_target_bias # 0 /\ last_target_bias # target_bias
    /\ result = last_target_bias /\ last_update_index = index

\* Levels bias_level could hold instead of the one it holds.
OtherLevels == {v * Unit : v \in (-MaxLevel)..MaxLevel}

Min(a, b) == IF a <= b THEN a ELSE b
Max(a, b) == IF a >= b THEN a ELSE b

\* C16: calculate_bias(j, 'linear') depends on j, last_target_bias,
\* target_bias, last_update_index and target_index only: an object that
\* differs in bias_level alone returns the same value, and a second call at
\* the same index returns what the first returned.
C16_LinearIsPure ==
    /\ \A j \in Indexes :
          LET c == calculate_bias(Self, j, "linear")
          IN  /\ \A v \in OtherLevels :
                    LET d == calculate_bias([Self EXCEPT !.bias_level = v], j, "linear")
                    IN  d.ret = c.ret /\ d.raised = c.raised
              /\ ~c.raised => calculate_bias(c.self, j, "linear").ret = c.ret
    /\ (op = "calculate_bias" /\ bias_type = "linear" /\ ~raised)
          => calculate_bias(Self, index, "linear").ret = result

\* C16 witness: after a 'linear' calculate_bias inside the window, the same
\* call again returns the same value, while two 'gradual' calls at that
\* index from this state return two different values.
C16_Witness ==
    /\ op = "calculate_bias" /\ bias_type = "linear" /\ updated /\ ~raised
    /\ last_update_index < index /\ index < target_index
    /\ calculate_bias(Self, index, "linear").ret = result
    /\ LET g == calculate_bias(Self, index, "gradual")
       IN  ~g.raised /\ calculate_bias(g.self, index, "gradual").ret # g.ret

\* C18: before any target has been accepted the object is settled on
\* target 0 whatever bias_init was: calculate_bias(j, 'gradual' | 'linear')
\* at j >= 0 and apply_bias(0, 0, 'gradual' | 'linear') return 0 and set
\* bias_level to 0, and the first accepted target starts with
\* last_target_bias = 0, so its 'linear' ramp starts from 0.
C18_FreshIsSettledOnZero ==
    /\ (~updated /\ op = "calculate_bias" /\ bias_type \in Interpolating /\ index >= 0)
          => (~raised /\ result = 0 /\ bias_level = 0)
    /\ (~updated /\ op = "apply_bias" /\ bias_type \in Interpolating
            /\ index = 0 /\ bias_input = 0)
          => (~raised /\ result = 0 /\ bias_level = 0)
    /\ ~updated =>
          \A i \in Indexes, b \in BiasInputs \ {0} :
              /\ validate_bias_input(Self, i, b).ret
              /\ validate_bias_input(Self, i, b).self.last_target_bias = 0
              /\ apply_bias(Self, i, b, "linear").ret = 0

\* C18 witness: a tracker built with bias_init # 0 and no target accepted
\* yet; calculate_bias at a positive index returned 0.
C18_Witness ==
    /\ ~updated /\ op = "calculate_bias" /\ bias_type = "linear" /\ index > 0
    /\ last_target_bias = Unit /\ result = 0 /\ bias_level = 0 /\ calls = 1

\* C19: after an accepted update, calculate_bias(j, 'linear') raises nothing,
\* and at j >= last_update_index its value lies between last_target_bias and
\* target_bias inclusive; at j < last_update_index it can lie outside.
C19_LinearBounded ==
    (op = "calculate_bias" /\ bias_type = "linear" /\ updated)
        => /\ ~raised
           /\ index >= last_update_index
                => /\ Min(last_target_bias, target_bias) <= result
                   /\ result <= Max(last_target_bias, target_bias)

\* C19 witness: an index below last_update_index; the value returned is
\* outside the two targets and nothing was raised.
C19_Witness ==
    /\ op = "calculate_bias" /\ bias_type = "linear" /\ updated /\ ~raised
    /\ index < last_update_index
    /\ \/ result < Min(last_target_bias, target_bias)
       \/ result > Max(last_target_bias, target_bias)

\* The last k ticks all offered the bias_input of the last one.
Steady(k) ==
    /\ k <= Len(history)
    /\ \A m \in (Len(history) - k + 1)..Len(history) : history[m].bias_input = bias_input

\* C17: with apply_bias called at every consecutive index with 'gradual' or
\* 'linear', once the offered target has been the same T from index i on,
\* the call at i + response_time and every later one returns T, and the
\* later ones change no field.
C17_SettlesWithinResponseTime ==
    /\ Steady(response_time + 1) => (~raised /\ result = bias_input)
    /\ Steady(response_time + 2) =>
          history[Len(history)].self = history[Len(history) - 1].self
====
